---- MODULE Spec2Model ----
(***************************************************************************)
(* anumhist.c: an array of numerical histograms (NHArray) and the bounds   *)
(* of a two-tailed Monte Carlo test read from it.                          *)
(*                                                                         *)
(* A C double is modelled exactly, as a pair <<n, d>>:                     *)
(*   d > 0   the rational n/d, kept in lowest terms;                       *)
(*   <<1,0>>, <<-1,0>>   +Inf / -Inf, and as a sample also any finite      *)
(*                       double whose scaled offset is beyond the range of *)
(*                       int (1e300, say);                                 *)
(*   <<0,0>> NaN.                                                          *)
(* Rounding error of the floating-point operations is not modelled.        *)
(*                                                                         *)
(* Spec      the calls on a live handle, one at a time.                    *)
(* SpecFree  the same with FreeNHArray among them.                         *)
(* SpecRace  one UpdateNHArray and one GetXRange call interleaved between  *)
(*           the rows of their loops.                                      *)
(***************************************************************************)
EXTENDS Integers, Sequences, FiniteSets, TLC

VARIABLES
  xl,          \* NHArray.xl
  xu,          \* NHArray.xu
  nbins,       \* NHArray.nbins
  nbinsm1,     \* NHArray.nbinsm1
  deltax,      \* NHArray.deltax
  elems,       \* NHArray.elems
  dbuffer,     \* NHArray.dbuffer: row i (0..elems-1), bin b (0..nbins-1)
  normalized,  \* NHArray.normalized
  ret,         \* the last call on the handle: its name, argument and outcome
  okUpdates,   \* history: number of UpdateNHArray calls that returned None
  everRange,   \* history: a GetXRange call has happened
  obs,         \* the locals of the GetXRange call that led to this state
  heap,        \* the block nhp->dbuffer points to, and the pointer itself
  calls        \* the calls in progress when calls interleave row by row

vars == <<xl, xu, nbins, nbinsm1, deltax, elems, dbuffer, normalized,
          ret, okUpdates, everRange, obs, heap, calls>>

nharray == <<xl, xu, nbins, nbinsm1, deltax, elems, dbuffer, normalized>>

-----------------------------------------------------------------------------
(* Bounds of the model *)

\* successful updates explored on the general configurations
MaxUpdates == 3

\* successful updates explored on the 11-bin configuration
MaxTrials == 11

-----------------------------------------------------------------------------
(* double arithmetic *)

INT_MAX == 2147483647

INT_MIN == -INT_MAX - 1

Abs(n) == IF n < 0 THEN -n ELSE n

Sign(n) == IF n > 0 THEN 1 ELSE IF n < 0 THEN -1 ELSE 0

RECURSIVE GCD(_, _)
GCD(a, b) == IF b = 0 THEN a ELSE GCD(b, a % b)

\* the double n/d
Rat(n, d) ==
  IF d = 0 THEN <<Sign(n), 0>>
  ELSE LET g == GCD(Abs(n), Abs(d))
       IN  <<(Sign(d) * n) \div g, Abs(d) \div g>>

Dbl(k) == <<k, 1>>

NaN == <<0, 0>>

IsFinite(a) == a[2] # 0

IsNaN(a) == a = NaN

\* -1, 0, 1 for -Inf, finite, +Inf
Lvl(a) == IF a[2] = 0 THEN a[1] ELSE 0

DNeg(a) == <<-a[1], a[2]>>

DAdd(a, b) ==
  IF IsFinite(a) /\ IsFinite(b) THEN Rat(a[1] * b[2] + b[1] * a[2], a[2] * b[2])
  ELSE IF IsNaN(a) \/ IsNaN(b) \/ Lvl(a) * Lvl(b) = -1 THEN NaN
  ELSE <<Sign(Lvl(a) + Lvl(b)), 0>>

DSub(a, b) == DAdd(a, DNeg(b))

DMul(a, b) ==
  IF IsFinite(a) /\ IsFinite(b) THEN Rat(a[1] * b[1], a[2] * b[2])
  ELSE IF IsNaN(a) \/ IsNaN(b) \/ a[1] = 0 \/ b[1] = 0 THEN NaN
  ELSE <<Sign(a[1]) * Sign(b[1]), 0>>

DDiv(a, b) ==
  IF IsFinite(a) /\ IsFinite(b)
  THEN IF b[1] = 0 THEN <<Sign(a[1]), 0>> ELSE Rat(a[1] * b[2], a[2] * b[1])
  ELSE IF IsNaN(a) \/ IsNaN(b) \/ (~IsFinite(a) /\ ~IsFinite(b)) THEN NaN
  ELSE IF IsFinite(a) THEN Dbl(0)
  ELSE <<a[1] * (IF b[1] < 0 THEN -1 ELSE 1), 0>>

\* a > b; false when either is NaN
DGt(a, b) ==
  /\ ~IsNaN(a)
  /\ ~IsNaN(b)
  /\ \/ Lvl(a) > Lvl(b)
     \/ IsFinite(a) /\ IsFinite(b) /\ a[1] * b[2] > b[1] * a[2]

\* rounding toward zero where the code rounds to nearest
rintTowardZero(a) ==
  IF ~IsFinite(a) THEN a
  ELSE IF a[1] >= 0 THEN Dbl(a[1] \div a[2]) ELSE Dbl(-((-a[1]) \div a[2]))

\* rint() in the default rounding mode: to nearest, ties to even
rint(a) ==
  IF ~IsFinite(a) THEN a
  ELSE LET f == a[1] \div a[2]
           r == a[1] - f * a[2]
       IN  IF 2 * r < a[2] THEN Dbl(f)
           ELSE IF 2 * r > a[2] THEN Dbl(f + 1)
           ELSE IF f % 2 = 0 THEN Dbl(f) ELSE Dbl(f + 1)

\* The builds: the conversion of a double that no int holds is undefined in C.
\* cvttsd2si (x86-64) yields INT_MIN for every such value; fcvtzs (AArch64)
\* saturates and yields 0 for NaN.
Builds == {"x86_64", "aarch64"}

\* the cast (int)a
DoubleToInt(a, build) ==
  IF IsFinite(a)
  THEN IF a[1] >= 0 THEN a[1] \div a[2] ELSE -((-a[1]) \div a[2])
  ELSE IF build = "x86_64" THEN INT_MIN
  ELSE IF IsNaN(a) THEN 0
  ELSE IF a[1] > 0 THEN INT_MAX ELSE INT_MIN

-----------------------------------------------------------------------------
(* The handle *)

\* CreateNHArray dividing the domain by nbins where the code divides by nbins-1
CreateNHArrayByBins(axl, axu, anbins, aelems) ==
  /\ elems = aelems
  /\ xl = axl
  /\ xu = axu
  /\ nbins = anbins
  /\ nbinsm1 = anbins - 1
  /\ deltax = DDiv(DSub(axu, axl), Dbl(anbins))
  /\ dbuffer = [i \in 0 .. aelems - 1 |-> [b \in 0 .. anbins - 1 |-> Dbl(0)]]
  /\ normalized = FALSE

\* CreateNHArray(xl, xu, nbins, elems): the fields of the new NHArray
CreateNHArray(axl, axu, anbins, aelems) ==
  /\ elems = aelems
  /\ xl = axl
  /\ xu = axu
  /\ nbins = anbins
  /\ nbinsm1 = anbins - 1
  /\ deltax = DDiv(DSub(axu, axl), Dbl(anbins - 1))
  /\ dbuffer = [i \in 0 .. aelems - 1 |-> [b \in 0 .. anbins - 1 |-> Dbl(0)]]
  /\ normalized = FALSE

\* the row of variable ielems
getpdfptr(buf, ielems) == buf[ielems]

\* the bin of val: lines 181-183 of updatevalue
nbinOf(val, build) ==
  LET n0 == DoubleToInt(rint(DDiv(DSub(val, xl), deltax)), build)
      n1 == IF n0 < 0 THEN 0 ELSE n0
  IN  IF n1 > nbinsm1 THEN nbinsm1 ELSE n1

\* updatevalue rejecting a value outside the bins where the code saturates
updatevalueDrop(buf, i, val, build) ==
  LET thepdf == getpdfptr(buf, i)
      nbin == DoubleToInt(rint(DDiv(DSub(val, xl), deltax)), build)
  IN  IF nbin < 0 \/ nbin > nbinsm1 THEN buf
      ELSE [buf EXCEPT ![i] = [thepdf EXCEPT ![nbin] = DAdd(@, Dbl(1))]]

\* updatevalue(nhp, i, val): the buffer after thepdf[nbin]++
updatevalue(buf, i, val, build) ==
  LET thepdf == getpdfptr(buf, i)
      nbin == nbinOf(val, build)
  IN  [buf EXCEPT ![i] = [thepdf EXCEPT ![nbin] = DAdd(@, Dbl(1))]]

\* int Nx; Nx += thepdf[nbin] for nbin = from .. nbins-1
RECURSIVE SumNx(_, _, _, _)
SumNx(thepdf, nbin, Nx, build) ==
  IF nbin >= nbins THEN Nx
  ELSE SumNx(thepdf, nbin + 1, DoubleToInt(DAdd(Dbl(Nx), thepdf[nbin]), build), build)

\* normalizepdf dividing by the number of bins where the code divides by Nx
normalizepdfByBins(buf, i, build) ==
  LET thepdf == getpdfptr(buf, i)
  IN  [dbuffer |-> [buf EXCEPT ![i] = [nbin \in 0 .. nbins - 1 |-> DDiv(thepdf[nbin], Dbl(nbins))]],
       normalized |-> TRUE]

\* normalizepdf leaving a row without samples as it is
normalizepdfGuarded(buf, i, build) ==
  LET thepdf == getpdfptr(buf, i)
      Nx == SumNx(thepdf, 0, 0, build)
  IN  [dbuffer |-> IF Nx = 0 THEN buf
                   ELSE [buf EXCEPT ![i] = [nbin \in 0 .. nbins - 1 |-> DDiv(thepdf[nbin], Dbl(Nx))]],
       normalized |-> TRUE]

\* normalizepdf(nhp, i): the buffer and the flag after it
normalizepdf(buf, i, build) ==
  LET thepdf == getpdfptr(buf, i)
      Nx == SumNx(thepdf, 0, 0, build)
  IN  [dbuffer |-> [buf EXCEPT ![i] = [nbin \in 0 .. nbins - 1 |-> DDiv(thepdf[nbin], Dbl(Nx))]],
       normalized |-> TRUE]

\* the scan with the lower bound at the crossing bin, without the -1
RECURSIVE ScanBinsNoShift(_, _, _, _, _, _, _, _)
ScanBinsNoShift(pdf, nbin, p0, gotlow, pl, pu, rxl, rxu) ==
  IF nbin >= nbins THEN <<rxl, rxu, gotlow, nbin>>
  ELSE LET p == DAdd(p0, pdf[nbin])
           low == DGt(p, pl) /\ ~gotlow
           rxl1 == IF low THEN DAdd(xl, DMul(deltax, Dbl(nbin))) ELSE rxl
       IN  IF DGt(p, pu)
           THEN <<rxl1, DAdd(xl, DMul(deltax, Dbl(nbin))), gotlow \/ low, nbin>>
           ELSE ScanBinsNoShift(pdf, nbin + 1, p, gotlow \/ low, pl, pu, rxl1, rxu)

\* the scan with the test of pu, and its break, before the test of pl
RECURSIVE ScanBinsUpperFirst(_, _, _, _, _, _, _, _)
ScanBinsUpperFirst(pdf, nbin, p0, gotlow, pl, pu, rxl, rxu) ==
  IF nbin >= nbins THEN <<rxl, rxu, gotlow, nbin>>
  ELSE LET p == DAdd(p0, pdf[nbin])
           low == DGt(p, pl) /\ ~gotlow
           rxl1 == IF low THEN DAdd(xl, DMul(deltax, Dbl(nbin - 1))) ELSE rxl
       IN  IF DGt(p, pu)
           THEN <<rxl, DAdd(xl, DMul(deltax, Dbl(nbin))), gotlow, nbin>>
           ELSE ScanBinsUpperFirst(pdf, nbin + 1, p, gotlow \/ low, pl, pu, rxl1, rxu)

\* the scan of getrange from bin nbin on: *xl, *xu, gotlow and nbin as the
\* loop leaves them (nbin < nbins after the break)
RECURSIVE ScanBins(_, _, _, _, _, _, _, _)
ScanBins(pdf, nbin, p0, gotlow, pl, pu, rxl, rxu) ==
  IF nbin >= nbins THEN <<rxl, rxu, gotlow, nbin>>
  ELSE LET p == DAdd(p0, pdf[nbin])
           low == DGt(p, pl) /\ ~gotlow
           rxl1 == IF low THEN DAdd(xl, DMul(deltax, Dbl(nbin - 1))) ELSE rxl
       IN  IF DGt(p, pu)
           THEN <<rxl1, DAdd(xl, DMul(deltax, Dbl(nbin))), gotlow \/ low, nbin>>
           ELSE ScanBins(pdf, nbin + 1, p, gotlow \/ low, pl, pu, rxl1, rxu)

\* getrange setting *xl and *xu to 0 before its scan
getrangeReset(buf, i, pl, pu, rxl, rxu) ==
  ScanBins(getpdfptr(buf, i), 0, Dbl(0), FALSE, pl, pu, Dbl(0), Dbl(0))

\* getrange(nhp, i, pl, pu, &xl, &xu): *xl and *xu after the call, and the
\* locals gotlow and nbin at its end
getrange(buf, i, pl, pu, rxl, rxu) ==
  ScanBins(getpdfptr(buf, i), 0, Dbl(0), FALSE, pl, pu, rxl, rxu)

-----------------------------------------------------------------------------
(* UpdateNHArray *)

\* UpdateNHArray without its test of the flag
NeverNormalized == FALSE

\* line 251
AlreadyNormalized == normalized

\* line 256
NotLinear(a) == a.nd # 1

\* the test of line 260 written with < for !=
DimensionTooShort(a) == a.dim0 < elems

\* line 260
DimensionMismatch(a) == a.dim0 # elems

\* lines 273-276
RECURSIVE UpdateLoop(_, _, _, _)
UpdateLoop(buf, a, ipt, build) ==
  IF ipt >= elems THEN buf
  ELSE UpdateLoop(updatevalue(buf, ipt, a.data[ipt], build), a, ipt + 1, build)

NoValue == <<>>

\* line 146: calloc has returned a block, which no call has released
Allocated == [ptr |-> TRUE, frees |-> 0, uaf |-> FALSE]

\* a read or write through nhp->dbuffer: of a released block if frees > 0
Touch(h) == [h EXCEPT !.uaf = @ \/ h.frees > 0]

\* no call is in progress
Idle ==
  [u |-> [pc |-> "idle"], g |-> [pc |-> "idle"], Nx |-> NoValue, raced |-> FALSE]

\* of a GetXRange call: whether it found the flag unset at line 295, what its
\* locals xl and xu held at first, and gotlow and nbin at the end of each scan
Observed(first, junkl, junku, marks) ==
  [first |-> first, junk |-> <<junkl, junku>>, marks |-> marks]

NoObs == Observed(FALSE, NoValue, NoValue, NoValue)

Returned(op, arg, status, value) ==
  [op |-> op, arg |-> arg, status |-> status, value |-> value]

\* UpdateNHArray with the tests of the shape before the test of the flag
UpdateNHArrayShapeFirst(a, build) ==
  /\ IF NotLinear(a)
     THEN /\ ret' = Returned("UpdateNHArray", a, "must be linear", NoValue)
          /\ UNCHANGED <<dbuffer, okUpdates, heap>>
     ELSE IF DimensionMismatch(a)
     THEN /\ ret' = Returned("UpdateNHArray", a, "dimensions do not match", NoValue)
          /\ UNCHANGED <<dbuffer, okUpdates, heap>>
     ELSE IF AlreadyNormalized
     THEN /\ ret' = Returned("UpdateNHArray", a, "already normalized", NoValue)
          /\ UNCHANGED <<dbuffer, okUpdates, heap>>
     ELSE /\ dbuffer' = UpdateLoop(dbuffer, a, 0, build)
          /\ ret' = Returned("UpdateNHArray", a, "ok", NoValue)
          /\ okUpdates' = okUpdates + 1
          /\ heap' = Touch(heap)
  /\ obs' = NoObs
  /\ UNCHANGED <<xl, xu, nbins, nbinsm1, deltax, elems, normalized, everRange, calls>>

UpdateNHArray(a, build) ==
  /\ IF AlreadyNormalized
     THEN /\ ret' = Returned("UpdateNHArray", a, "already normalized", NoValue)
          /\ UNCHANGED <<dbuffer, okUpdates, heap>>
     ELSE IF NotLinear(a)
     THEN /\ ret' = Returned("UpdateNHArray", a, "must be linear", NoValue)
          /\ UNCHANGED <<dbuffer, okUpdates, heap>>
     ELSE IF DimensionMismatch(a)
     THEN /\ ret' = Returned("UpdateNHArray", a, "dimensions do not match", NoValue)
          /\ UNCHANGED <<dbuffer, okUpdates, heap>>
     ELSE /\ dbuffer' = UpdateLoop(dbuffer, a, 0, build)
          /\ ret' = Returned("UpdateNHArray", a, "ok", NoValue)
          /\ okUpdates' = okUpdates + 1
          /\ heap' = Touch(heap)
  /\ obs' = NoObs
  /\ UNCHANGED <<xl, xu, nbins, nbinsm1, deltax, elems, normalized, everRange, calls>>

-----------------------------------------------------------------------------
(* GetXRange *)

\* the loop of lines 296-297 testing the flag again before each row
RECURSIVE NormalizeLoopGated(_, _, _)
NormalizeLoopGated(st, ielem, build) ==
  IF ielem >= elems \/ st.normalized THEN st
  ELSE NormalizeLoopGated(normalizepdf(st.dbuffer, ielem, build), ielem + 1, build)

\* lines 296-297: normalizepdf on the rows ielem .. elems-1
RECURSIVE NormalizeLoop(_, _, _)
NormalizeLoop(st, ielem, build) ==
  IF ielem >= elems THEN st
  ELSE NormalizeLoop(normalizepdf(st.dbuffer, ielem, build), ielem + 1, build)

\* the flag set only when some row held a sample
NormalizeOnceIfSamples(build) ==
  IF ~normalized
  THEN [NormalizeLoop([dbuffer |-> dbuffer, normalized |-> normalized], 0, build)
          EXCEPT !.normalized = \E i \in 0 .. elems - 1 : SumNx(dbuffer[i], 0, 0, build) > 0]
  ELSE [dbuffer |-> dbuffer, normalized |-> normalized]

\* the rows normalized at every call, without the test of line 295
NormalizeAlways(build) ==
  [NormalizeLoop([dbuffer |-> dbuffer, normalized |-> normalized], 0, build)
     EXCEPT !.normalized = TRUE]

\* lines 295-299
NormalizeOnce(build) ==
  IF ~normalized
  THEN [NormalizeLoop([dbuffer |-> dbuffer, normalized |-> normalized], 0, build)
          EXCEPT !.normalized = TRUE]
  ELSE [dbuffer |-> dbuffer, normalized |-> normalized]

\* lines 309-315: the rows ielem .. elems-1 of the result; rxl and rxu are the
\* locals xl and xu of GetXRange, which no line initializes
\* marks[ielem] keeps gotlow and nbin of the scan of row ielem
RECURSIVE RangeLoop(_, _, _, _, _, _, _, _)
RangeLoop(buf, ielem, pl, pu, rxl, rxu, rarray, marks) ==
  IF ielem >= elems THEN [rarray |-> rarray, marks |-> marks]
  ELSE LET x == getrange(buf, ielem, pl, pu, rxl, rxu)
       IN  RangeLoop(buf, ielem + 1, pl, pu, x[1], x[2],
                     [rarray EXCEPT ![ielem] = <<x[1], x[2]>>],
                     [marks EXCEPT ![ielem] = [gotlow |-> x[3], nbin |-> x[4]]])

GetXRange(prob, junkl, junku, build) ==
  LET pl == DDiv(prob, Dbl(2))
      pu == DSub(Dbl(1), pl)
      zeros == [i \in 0 .. elems - 1 |-> <<Dbl(0), Dbl(0)>>]
      unmarked == [i \in 0 .. elems - 1 |-> [gotlow |-> FALSE, nbin |-> 0]]
  IN  \E st \in {NormalizeOnce(build)} :
        \E r \in {RangeLoop(st.dbuffer, 0, pl, pu, junkl, junku, zeros, unmarked)} :
          /\ dbuffer' = st.dbuffer
          /\ normalized' = st.normalized
          /\ ret' = Returned("GetXRange", prob, "ok", r.rarray)
          /\ obs' = Observed(~normalized, junkl, junku, r.marks)
          /\ everRange' = TRUE
          /\ heap' = Touch(heap)
          /\ UNCHANGED <<xl, xu, nbins, nbinsm1, deltax, elems, okUpdates, calls>>

-----------------------------------------------------------------------------
(* GetDeltaX *)

GetDeltaX ==
  /\ ret' = Returned("GetDeltaX", NoValue, "ok", deltax)
  /\ obs' = NoObs
  /\ UNCHANGED <<nharray, okUpdates, everRange, heap, calls>>

-----------------------------------------------------------------------------
(* FreeNHArray *)

\* what the released block may hold afterwards: what it held, or, in its
\* first word, what the allocator wrote there
Released(buf) == {buf, [buf EXCEPT ![0][0] = Dbl(7)]}

\* FreeNHArray setting nhp->dbuffer to NULL after free()
FreeNHArrayClearing ==
  /\ IF heap.ptr
     THEN /\ heap' = [heap EXCEPT !.frees = @ + 1, !.ptr = FALSE]
          /\ dbuffer' \in Released(dbuffer)
     ELSE UNCHANGED <<heap, dbuffer>>
  /\ ret' = Returned("FreeNHArray", NoValue, "ok", NoValue)
  /\ obs' = NoObs
  /\ UNCHANGED <<xl, xu, nbins, nbinsm1, deltax, elems, normalized, okUpdates,
                 everRange, calls>>

\* lines 122-125: free(nhp->dbuffer) if the pointer is not NULL; the pointer
\* keeps its value
FreeNHArray ==
  /\ IF heap.ptr
     THEN /\ heap' = [heap EXCEPT !.frees = @ + 1]
          /\ dbuffer' \in Released(dbuffer)
     ELSE UNCHANGED <<heap, dbuffer>>
  /\ ret' = Returned("FreeNHArray", NoValue, "ok", NoValue)
  /\ obs' = NoObs
  /\ UNCHANGED <<xl, xu, nbins, nbinsm1, deltax, elems, normalized, okUpdates,
                 everRange, calls>>

-----------------------------------------------------------------------------
(* The calls explored *)

\* CreateNHArray(xl, xu, nbins, elems) with xu > xl and nbins >= 2
Configs ==
  { [xl |-> Dbl(0),  xu |-> Dbl(10), nbins |-> 11, elems |-> 1],
    [xl |-> Dbl(-2), xu |-> Dbl(6),  nbins |-> 3,  elems |-> 2],
    [xl |-> Dbl(0),  xu |-> Dbl(3),  nbins |-> 3,  elems |-> 1] }

\* xl + deltax * n/d
Offset(n, d) == DAdd(xl, DMul(deltax, Rat(n, d)))

PosHuge == <<1, 0>>

NegHuge == <<-1, 0>>

\* the samples drawn: the ends of the domain, bin centres, points between
\* two centres (ties and others), points outside the domain, and values
\* whose offset in bins no int holds
Samples ==
  IF nbins > 3 THEN {xl, Offset(nbinsm1, 2)}
  ELSE IF elems > 1 THEN {xl, Offset(3, 2), Offset(5, 2), PosHuge}
  ELSE {xl, xu, Offset(1, 2), Offset(3, 4), Offset(3, 2), Offset(-7, 4),
        Offset(5, 2), PosHuge, NegHuge}

\* the array argument of UpdateNHArray: a.nd, a.dimensions[0] and the doubles
\* at a.data + a.strides[0] * ipt
Arguments ==
  {[nd |-> 1, dim0 |-> elems, data |-> d] : d \in [0 .. elems - 1 -> Samples]}
    \cup {[nd |-> 2, dim0 |-> elems, data |-> [i \in 0 .. elems - 1 |-> xl]],
          [nd |-> 1, dim0 |-> elems + 1, data |-> [i \in 0 .. elems |-> xl]],
          [nd |-> 1, dim0 |-> elems - 1, data |-> [i \in 0 .. elems - 2 |-> xl]],
          [nd |-> 0, dim0 |-> 0, data |-> [i \in 0 .. 0 |-> xl]]}

\* the prob argument of GetXRange
Probs == {Dbl(0), Rat(1, 5), Rat(1, 2), Dbl(1)}

\* what the uninitialized locals xl and xu of GetXRange may hold
Indeterminate == {Dbl(0), Dbl(7)}

UpdateBound == IF nbins > 3 THEN MaxTrials ELSE MaxUpdates

Init ==
  /\ \E c \in Configs : CreateNHArray(c.xl, c.xu, c.nbins, c.elems)
  /\ ret = Returned("CreateNHArray", NoValue, "ok", NoValue)
  /\ okUpdates = 0
  /\ everRange = FALSE
  /\ obs = NoObs
  /\ heap = Allocated
  /\ calls = Idle

Update ==
  \E a \in Arguments, build \in Builds :
    /\ okUpdates < UpdateBound
    /\ UpdateNHArray(a, build)

Range ==
  \E prob \in Probs, junkl \in Indeterminate, junku \in Indeterminate, build \in Builds :
    GetXRange(prob, junkl, junku, build)

Next ==
  \/ Update
  \/ Range
  \/ GetDeltaX

Spec == Init /\ [][Next]_vars

\* the calls on a handle that FreeNHArray may be called on, at most MaxFrees
\* times, among at most MaxFreeUpdates accepted UpdateNHArray calls
MaxFrees == 2

MaxFreeUpdates == 2

InitFree == Init /\ nbins > 3

UpdateFree == okUpdates < MaxFreeUpdates /\ Update

Free == heap.frees < MaxFrees /\ FreeNHArray

NextFree ==
  \/ UpdateFree
  \/ Range
  \/ GetDeltaX
  \/ Free

SpecFree == InitFree /\ [][NextFree]_vars

-----------------------------------------------------------------------------
(* One UpdateNHArray call and one GetXRange call on the same handle, with   *)
(* no lock around them: a step is what one call does between two rows       *)

\* UpdateNHArray(a) about to run line 274 for row ipt
Updating(a, ipt) == [pc |-> "loop", a |-> a, ipt |-> ipt]

\* GetXRange(prob) about to run line 297 for row ielem; junk is what its
\* locals xl and xu hold
Normalizing(prob, junk, ielem) ==
  [pc |-> "norm", prob |-> prob, junk |-> junk, ielem |-> ielem]

\* GetXRange(prob) about to run line 310 for row ielem; rxl and rxu are its
\* locals xl and xu
Scanning(prob, junk, first, ielem, rxl, rxu, rarray, marks) ==
  [pc |-> "scan", prob |-> prob, junk |-> junk, first |-> first, ielem |-> ielem,
   rxl |-> rxl, rxu |-> rxu, rarray |-> rarray, marks |-> marks]

\* lines 250-272, reached while the other call is or is not in progress
UpdateCall(a) ==
  /\ calls.u.pc = "idle"
  /\ IF AlreadyNormalized
     THEN /\ ret' = Returned("UpdateNHArray", a, "already normalized", NoValue)
          /\ obs' = NoObs
          /\ UNCHANGED calls
     ELSE IF NotLinear(a)
     THEN /\ ret' = Returned("UpdateNHArray", a, "must be linear", NoValue)
          /\ obs' = NoObs
          /\ UNCHANGED calls
     ELSE IF DimensionMismatch(a)
     THEN /\ ret' = Returned("UpdateNHArray", a, "dimensions do not match", NoValue)
          /\ obs' = NoObs
          /\ UNCHANGED calls
     ELSE /\ calls' = [calls EXCEPT !.u = Updating(a, 0),
                                    !.raced = @ \/ calls.g.pc # "idle"]
          /\ UNCHANGED <<ret, obs>>
  /\ UNCHANGED <<nharray, okUpdates, everRange, heap>>

\* lines 274-275 for one row, and line 277 after the last row
UpdateRow(build) ==
  /\ calls.u.pc = "loop"
  /\ LET a == calls.u.a
         ipt == calls.u.ipt
     IN  /\ dbuffer' = updatevalue(dbuffer, ipt, a.data[ipt], build)
         /\ IF ipt + 1 >= elems
            THEN /\ ret' = Returned("UpdateNHArray", a, "ok", NoValue)
                 /\ obs' = NoObs
                 /\ okUpdates' = okUpdates + 1
                 /\ calls' = [calls EXCEPT !.u = Idle.u]
            ELSE /\ calls' = [calls EXCEPT !.u = Updating(a, ipt + 1)]
                 /\ UNCHANGED <<ret, obs, okUpdates>>
  /\ heap' = Touch(heap)
  /\ UNCHANGED <<xl, xu, nbins, nbinsm1, deltax, elems, normalized, everRange>>

\* lines 291-295: the test of the flag
RangeCall(prob, junkl, junku) ==
  /\ calls.g.pc = "idle"
  /\ calls' = [calls EXCEPT
       !.g = IF ~normalized
             THEN Normalizing(prob, <<junkl, junku>>, 0)
             ELSE Scanning(prob, <<junkl, junku>>, FALSE, 0, junkl, junku,
                           [i \in 0 .. elems - 1 |-> <<Dbl(0), Dbl(0)>>],
                           [i \in 0 .. elems - 1 |-> [gotlow |-> FALSE, nbin |-> 0]]),
       !.raced = @ \/ calls.u.pc # "idle"]
  /\ UNCHANGED <<nharray, ret, okUpdates, everRange, obs, heap>>

\* line 297 for one row, and lines 298-308 after the last row; calls.Nx
\* keeps the Nx each row was divided by
RangeNormalize(build) ==
  /\ calls.g.pc = "norm"
  /\ LET g == calls.g
     IN  \E st \in {normalizepdf(dbuffer, g.ielem, build)} :
           /\ dbuffer' = st.dbuffer
           /\ normalized' = st.normalized
           /\ calls' = [calls EXCEPT
                !.Nx = Append(@, SumNx(dbuffer[g.ielem], 0, 0, build)),
                !.g = IF g.ielem + 1 >= elems
                      THEN Scanning(g.prob, g.junk, TRUE, 0, g.junk[1], g.junk[2],
                                    [i \in 0 .. elems - 1 |-> <<Dbl(0), Dbl(0)>>],
                                    [i \in 0 .. elems - 1 |-> [gotlow |-> FALSE, nbin |-> 0]])
                      ELSE Normalizing(g.prob, g.junk, g.ielem + 1)]
  /\ heap' = Touch(heap)
  /\ UNCHANGED <<xl, xu, nbins, nbinsm1, deltax, elems, ret, okUpdates, everRange, obs>>

\* lines 310-314 for one row, and line 316 after the last row
RangeScan ==
  /\ calls.g.pc = "scan"
  /\ LET g == calls.g
         pl == DDiv(g.prob, Dbl(2))
         pu == DSub(Dbl(1), pl)
     IN  \E x \in {getrange(dbuffer, g.ielem, pl, pu, g.rxl, g.rxu)} :
           LET rarray == [g.rarray EXCEPT ![g.ielem] = <<x[1], x[2]>>]
               marks == [g.marks EXCEPT ![g.ielem] = [gotlow |-> x[3], nbin |-> x[4]]]
           IN  IF g.ielem + 1 >= elems
               THEN /\ ret' = Returned("GetXRange", g.prob, "ok", rarray)
                    /\ obs' = Observed(g.first, g.junk[1], g.junk[2], marks)
                    /\ everRange' = TRUE
                    /\ calls' = [calls EXCEPT !.g = Idle.g]
               ELSE /\ calls' = [calls EXCEPT
                         !.g = Scanning(g.prob, g.junk, g.first, g.ielem + 1,
                                        x[1], x[2], rarray, marks)]
                    /\ UNCHANGED <<ret, obs, everRange>>
  /\ heap' = Touch(heap)
  /\ UNCHANGED <<nharray, okUpdates>>

\* at most MaxRaceUpdates UpdateNHArray calls are accepted
MaxRaceUpdates == 2

\* the arguments drawn: samples at the two ends of the bins
RaceArguments ==
  {a \in Arguments : \A i \in DOMAIN a.data : a.data[i] \in {xl, Offset(5, 2)}}

RaceProbs == {Dbl(0), Dbl(1)}

InitRace == Init /\ elems > 1

UpdateEnter ==
  \E a \in RaceArguments :
    /\ okUpdates + (IF calls.u.pc = "idle" THEN 0 ELSE 1) < MaxRaceUpdates
    /\ UpdateCall(a)

UpdateStep == \E build \in Builds : UpdateRow(build)

RangeEnter ==
  \E prob \in RaceProbs, junkl \in Indeterminate, junku \in Indeterminate :
    RangeCall(prob, junkl, junku)

RangeNormalizeStep == \E build \in Builds : RangeNormalize(build)

NextRace ==
  \/ UpdateEnter
  \/ UpdateStep
  \/ RangeEnter
  \/ RangeNormalizeStep
  \/ RangeScan

SpecRace == InitRace /\ [][NextRace]_vars

-----------------------------------------------------------------------------
(* What the claims speak of *)

StateError == "already normalized"

ShapeErrors == {"must be linear", "dimensions do not match"}

\* the call that led to this state was UpdateNHArray and it returned None
Accepted(r) == r.op = "UpdateNHArray" /\ r.status = "ok"

\* samples is not one-dimensional or its length is not variableCount
BadShape(a) == a.nd # 1 \/ a.dim0 # elems

DLe(a, b) == ~IsNaN(a) /\ ~IsNaN(b) /\ ~DGt(a, b)

DAbs(a) == <<Abs(a[1]), a[2]>>

\* the sum of the bins 0 .. b of a row
RECURSIVE CumSum(_, _)
CumSum(row, b) == IF b < 0 THEN Dbl(0) ELSE DAdd(CumSum(row, b - 1), row[b])

RowSum(row) == CumSum(row, nbins - 1)

\* row with bin j incremented by one
Bumped(row, j) == [row EXCEPT ![j] = DAdd(@, Dbl(1))]

\* the value of bin j
Centre(j) == DAdd(xl, DMul(deltax, Dbl(j)))

\* x is no further than half a bin width from the value of bin j
Nearest(x, j) == DLe(DMul(Dbl(2), DAbs(DSub(x, Centre(j)))), deltax)

\* x is less than half a bin width from the value of bin j
StrictlyNearest(x, j) == DGt(deltax, DMul(Dbl(2), DAbs(DSub(x, Centre(j)))))

InDomain(x) == DLe(xl, x) /\ DLe(x, xu)

-----------------------------------------------------------------------------
(* C1: once a GetXRange call has happened on the handle (or normalized is   *)
(* true), every UpdateNHArray call fails with the "already normalized"      *)
(* error and leaves every counter of every row unchanged.                   *)
C1_UpdateAfterRangeRejected ==
  [][((everRange \/ normalized) /\ ret'.op = "UpdateNHArray")
       => (ret'.status = StateError /\ dbuffer' = dbuffer)]_vars

\* a well-shaped update was rejected on a handle that holds samples
C1_Witness ==
  /\ everRange
  /\ okUpdates > 0
  /\ ret.op = "UpdateNHArray"
  /\ ~BadShape(ret.arg)
  /\ ret.status = StateError

(* C2, as stated: an UpdateNHArray call whose argument is not               *)
(* one-dimensional or whose length is not elems fails with the shape error  *)
(* and changes no counter and not the flag.                                 *)
C2_BadShapeAlwaysShapeError ==
  [][(ret'.op = "UpdateNHArray" /\ BadShape(ret'.arg))
       => (ret'.status \in ShapeErrors /\ dbuffer' = dbuffer
           /\ normalized' = normalized)]_vars

(* C2, amended: such a call changes no counter and not the flag; it fails   *)
(* with the shape error while normalized is false and with the "already     *)
(* normalized" error once normalized is true.                               *)
C2_BadShapeRejected ==
  [][(ret'.op = "UpdateNHArray" /\ BadShape(ret'.arg))
       => /\ dbuffer' = dbuffer
          /\ normalized' = normalized
          /\ IF normalized THEN ret'.status = StateError
             ELSE ret'.status \in ShapeErrors]_vars

\* a call with one element too many was rejected with the shape error on a
\* handle that holds samples
C2_Witness ==
  /\ ~normalized
  /\ okUpdates > 0
  /\ ret.op = "UpdateNHArray"
  /\ ret.arg.nd = 1
  /\ ret.arg.dim0 = elems + 1
  /\ ret.status = "dimensions do not match"

(* C3: while normalized is false the counters of every row sum to the       *)
(* number of successful UpdateNHArray calls, and each successful call adds  *)
(* exactly 1 to exactly one bin of each row.                                *)
C3_RowsSumToUpdates ==
  /\ [](~normalized => \A i \in 0 .. elems - 1 : RowSum(dbuffer[i]) = Dbl(okUpdates))
  /\ [][Accepted(ret')
         => /\ okUpdates' = okUpdates + 1
            /\ \A i \in 0 .. elems - 1 :
                 \E j \in 0 .. nbins - 1 : dbuffer'[i] = Bumped(dbuffer[i], j)]_vars

\* the samples of the second accepted call lay outside the domain
C3_Witness ==
  /\ ~normalized
  /\ Accepted(ret)
  /\ okUpdates = 2
  /\ \A i \in 0 .. elems - 1 : ~InDomain(ret.arg.data[i])

(* C4: a sample x inside [xl, xu] increments the bin nearest to it: a bin   *)
(* whose value is no further than deltax/2 from x, bin 0 for x = xl, bin    *)
(* nbins-1 for x = xu, and bin j when x is less than deltax/2 from the      *)
(* value of bin j.                                                          *)
C4_NearestBin ==
  [][Accepted(ret')
       => \A i \in 0 .. elems - 1 :
            LET x == ret'.arg.data[i]
            IN  InDomain(x)
                  => \E j \in 0 .. nbins - 1 :
                       /\ dbuffer'[i] = Bumped(dbuffer[i], j)
                       /\ Nearest(x, j)
                       /\ x = xl => j = 0
                       /\ x = xu => j = nbins - 1
                       /\ \A k \in 0 .. nbins - 1 : StrictlyNearest(x, k) => j = k]_vars

\* a sample at xu was counted in the last bin
C4_Witness ==
  /\ Accepted(ret)
  /\ okUpdates = 1
  /\ ret.arg.data[0] = xu
  /\ dbuffer[0][nbins - 1] = Dbl(1)

(* C5: a sample below xl increments bin 0 and a sample above xu increments  *)
(* bin nbins-1, whatever its magnitude.                                     *)
C5_OutsideSaturates ==
  [][Accepted(ret')
       => \A i \in 0 .. elems - 1 :
            LET x == ret'.arg.data[i]
            IN  /\ DGt(xl, x) => dbuffer'[i] = Bumped(dbuffer[i], 0)
                /\ DGt(x, xu) => dbuffer'[i] = Bumped(dbuffer[i], nbins - 1)]_vars

(* C6: after the first GetXRange call, and in every later state, every row *)
(* that received a sample before that call sums to 1: the call replaced     *)
(* each entry by its raw count divided by the raw total of its row, and no  *)
(* later call changes an entry.                                             *)
C6_NormalizedRowsSumToOne ==
  /\ []((everRange /\ okUpdates >= 1)
          => \A i \in 0 .. elems - 1 : RowSum(dbuffer[i]) = Dbl(1))
  /\ [][(~everRange /\ everRange')
          => \A i \in 0 .. elems - 1 :
               RowSum(dbuffer[i]) # Dbl(0)
                 => \A b \in 0 .. nbins - 1 :
                      dbuffer'[i][b] = DDiv(dbuffer[i][b], RowSum(dbuffer[i]))]_vars
  /\ [][everRange => dbuffer' = dbuffer]_vars

\* a later state of a handle normalized with two or more samples, some entry
\* a proper fraction
C6_Witness ==
  /\ everRange
  /\ okUpdates >= 2
  /\ ret.op = "UpdateNHArray"
  /\ \E i \in 0 .. elems - 1 : \E b \in 0 .. nbins - 1 :
       DGt(dbuffer[i][b], Dbl(0)) /\ DGt(Dbl(1), dbuffer[i][b])

(* C7: two consecutive GetXRange calls with the same prob return identical  *)
(* results.                                                                 *)
C7_RepeatedRangeIdentical ==
  [][(ret.op = "GetXRange" /\ ret'.op = "GetXRange" /\ ret'.arg = ret.arg)
       => ret'.value = ret.value]_vars

\* the first bin at which the cumulative mass of row exceeds thr; -1 if none
FirstAbove(row, thr) ==
  LET S == {b \in 0 .. nbins - 1 : DGt(CumSum(row, b), thr)}
  IN  IF S = {} THEN -1 ELSE CHOOSE b \in S : \A c \in S : b <= c

\* the row of the concrete scenario: one sample in bin 0, ten in bin 5
ScenarioRow ==
  [b \in 0 .. 10 |-> IF b = 0 THEN Rat(1, 11) ELSE IF b = 5 THEN Rat(10, 11) ELSE Dbl(0)]

(* C8: the lower bound GetXRange returns for variable i is                 *)
(* xl + deltax*(b1 - 1), b1 the first bin at which the cumulative mass      *)
(* exceeds prob/2, and the upper bound is xl + deltax*b2, b2 the first bin  *)
(* at which it exceeds 1 - prob/2; with xl = 0, xu = 10, 11 bins, ten       *)
(* samples 5.0 and one sample 0.0, GetXRange(0.2) returns [[4.0, 5.0]].     *)
C8_BoundsAtCrossings ==
  ret.op = "GetXRange"
    => /\ \A i \in 0 .. elems - 1 :
            LET pl == DDiv(ret.arg, Dbl(2))
                b1 == FirstAbove(dbuffer[i], pl)
                b2 == FirstAbove(dbuffer[i], DSub(Dbl(1), pl))
            IN  /\ b1 >= 0 => ret.value[i][1] = DAdd(xl, DMul(deltax, Dbl(b1 - 1)))
                /\ b2 >= 0 => ret.value[i][2] = DAdd(xl, DMul(deltax, Dbl(b2)))
       /\ (nbins = 11 /\ dbuffer[0] = ScenarioRow /\ ret.arg = Rat(1, 5))
            => ret.value = (0 :> <<Dbl(4), Dbl(5)>>)

\* the concrete scenario has run
C8_Witness ==
  /\ ret.op = "GetXRange"
  /\ ret.arg = Rat(1, 5)
  /\ xl = Dbl(0)
  /\ xu = Dbl(10)
  /\ nbins = 11
  /\ elems = 1
  /\ okUpdates = 11
  /\ dbuffer[0] = ScenarioRow
  /\ ret.value[0] = <<Dbl(4), Dbl(5)>>

\* the bins of row that hold mass
Support(row) == {b \in 0 .. nbins - 1 : DGt(row[b], Dbl(0))}

(* C9: GetXRange(1.0) returns, for every variable with mass in more than    *)
(* one bin, xLower <= m <= xUpper and xLower < xUpper, m the value of the   *)
(* bin at which the cumulative mass first exceeds 0.5.                      *)
C9_MedianEnclosed ==
  (ret.op = "GetXRange" /\ ret.arg = Dbl(1))
    => \A i \in 0 .. elems - 1 :
         Cardinality(Support(dbuffer[i])) > 1
           => LET m == FirstAbove(dbuffer[i], Rat(1, 2))
              IN  /\ m >= 0
                  /\ DLe(ret.value[i][1], Centre(m))
                  /\ DLe(Centre(m), ret.value[i][2])
                  /\ DGt(ret.value[i][2], ret.value[i][1])

\* GetXRange(1.0) on rows with mass in two bins or more, the median not in
\* the first of them
C9_Witness ==
  /\ ret.op = "GetXRange"
  /\ ret.arg = Dbl(1)
  /\ \A i \in 0 .. elems - 1 :
       /\ Cardinality(Support(dbuffer[i])) > 1
       /\ FirstAbove(dbuffer[i], Rat(1, 2)) > FirstAbove(dbuffer[i], Dbl(0))

(* C10: normalized is false after CreateNHArray, only a GetXRange call      *)
(* makes it true, every GetXRange call leaves it true (also when no sample  *)
(* was accumulated), and once true it stays true.                           *)
C10_NormalizedLatch ==
  /\ [](ret.op = "CreateNHArray" => ~normalized)
  /\ [](everRange => normalized)
  /\ [][(~normalized /\ normalized') => ret'.op = "GetXRange"]_vars
  /\ [][ret'.op = "GetXRange" => normalized']_vars
  /\ [][normalized => normalized']_vars

\* the flag set by a GetXRange call on a handle without samples is still set
\* after a later rejected update
C10_Witness ==
  /\ normalized
  /\ everRange
  /\ okUpdates = 0
  /\ ret.op = "UpdateNHArray"

-----------------------------------------------------------------------------
(* C11: deltax is (xu - xl)/(nbins - 1) from CreateNHArray on and no call   *)
(* changes it; GetDeltaX returns that value in the unnormalized and in the  *)
(* normalized state and changes no field of the handle.                     *)
C11_DeltaXFixed ==
  /\ [](deltax = DDiv(DSub(xu, xl), Dbl(nbins - 1)))
  /\ [](ret.op = "GetDeltaX" => ret.value = DDiv(DSub(xu, xl), Dbl(nbins - 1)))
  /\ [][deltax' = deltax /\ xl' = xl /\ xu' = xu /\ nbins' = nbins]_vars
  /\ [][ret'.op = "GetDeltaX" => nharray' = nharray]_vars

\* GetDeltaX on a normalized handle that holds samples, the width 3/2
C11_Witness ==
  /\ ret.op = "GetDeltaX"
  /\ ret.value = Rat(3, 2)
  /\ normalized
  /\ okUpdates > 0

(* C12: the first GetXRange call divides every row once by its raw total,   *)
(* the rows after row 0 included although normalizepdf has set the flag     *)
(* after row 0; a GetXRange call on a normalized handle divides no row.     *)
C12_EveryRowNormalizedOnce ==
  /\ [][(~normalized /\ ret'.op = "GetXRange")
          => \A i \in 0 .. elems - 1 : \A b \in 0 .. nbins - 1 :
               dbuffer'[i][b] = DDiv(dbuffer[i][b], RowSum(dbuffer[i]))]_vars
  /\ [][(normalized /\ ret'.op = "GetXRange") => dbuffer' = dbuffer]_vars

\* two rows that held different counts, both normalized
C12_Witness ==
  /\ ret.op = "GetXRange"
  /\ elems = 2
  /\ okUpdates >= 2
  /\ dbuffer[0] # dbuffer[1]
  /\ \A i \in 0 .. 1 : \E b \in 0 .. nbins - 1 :
       DGt(dbuffer[i][b], Dbl(0)) /\ DGt(Dbl(1), dbuffer[i][b])

(* C19: UpdateNHArray tests the flag before the shape: on a normalized      *)
(* handle every call, a badly shaped one included, fails with the "already  *)
(* normalized" error, and a shape error is reported only while normalized   *)
(* is false.                                                                *)
C19_StateBeforeShape ==
  [][ret'.op = "UpdateNHArray"
       => /\ normalized => ret'.status = StateError
          /\ ret'.status \in ShapeErrors => (~normalized /\ BadShape(ret'.arg))]_vars

\* a two-dimensional argument rejected with the state error
C19_Witness ==
  /\ normalized
  /\ ret.op = "UpdateNHArray"
  /\ ret.arg.nd = 2
  /\ ret.status = StateError

-----------------------------------------------------------------------------
\* the scan of row i by the call that led to this state left by its break
Broke(i) == obs.marks[i].nbin < nbins

\* that scan recorded a lower bound
GotLow(i) == obs.marks[i].gotlow

(* C13: for prob in [0,1], a scan that records the upper bound at bin b and *)
(* stops has recorded the lower bound, at a bin <= b.                       *)
C13_LowerNoLaterThanUpper ==
  ret.op = "GetXRange"
    => \A i \in 0 .. elems - 1 :
         Broke(i)
           => /\ GotLow(i)
              /\ \E bl \in 0 .. obs.marks[i].nbin : ret.value[i][1] = Centre(bl - 1)

\* a scan that recorded the lower bound at an earlier bin than the upper one
C13_Witness ==
  /\ ret.op = "GetXRange"
  /\ Broke(0)
  /\ obs.marks[0].nbin = 2
  /\ ret.value[0][1] = Centre(-1)

(* C16: a GetXRange call on a normalized handle, whatever its prob, leaves  *)
(* every counter, the flag, xl, xu, nbins, deltax and elems unchanged.      *)
C16_RangeReadOnlyOnceNormalized ==
  [][(normalized /\ ret'.op = "GetXRange") => nharray' = nharray]_vars

\* a call that found the flag set, on rows that hold proper fractions
C16_Witness ==
  /\ ret.op = "GetXRange"
  /\ ~obs.first
  /\ ret.arg = Rat(1, 2)
  /\ \E i \in 0 .. elems - 1 : \E b \in 0 .. nbins - 1 :
       DGt(dbuffer[i][b], Dbl(0)) /\ DGt(Dbl(1), dbuffer[i][b])

(* C20: for prob in [0,1] and deltax > 0, a lower bound that a scan records *)
(* lies in [xl - deltax, xu - deltax] and an upper bound that it records in *)
(* [xl, xu]; the lower bound is xl - deltax whenever the cumulative mass    *)
(* first exceeds prob/2 at bin 0; a pair recorded in the same scan has      *)
(* xLower <= xUpper - deltax.                                               *)
C20_RecordedBoundsInRange ==
  ret.op = "GetXRange"
    => \A i \in 0 .. elems - 1 :
         LET lo == ret.value[i][1]
             up == ret.value[i][2]
         IN  /\ GotLow(i) => DLe(DSub(xl, deltax), lo) /\ DLe(lo, DSub(xu, deltax))
             /\ Broke(i) => DLe(xl, up) /\ DLe(up, xu)
             /\ FirstAbove(dbuffer[i], DDiv(ret.arg, Dbl(2))) = 0
                  => GotLow(i) /\ lo = DSub(xl, deltax)
             /\ (GotLow(i) /\ Broke(i)) => DLe(lo, DSub(up, deltax))

\* a lower bound outside the domain, returned with an upper bound at xu
C20_Witness ==
  /\ ret.op = "GetXRange"
  /\ GotLow(0)
  /\ Broke(0)
  /\ ret.value[0] = <<DSub(xl, deltax), xu>>

-----------------------------------------------------------------------------
\* the call reads or writes the counts through nhp->dbuffer
Accesses(r) == r.op = "GetXRange" \/ (r.op = "UpdateNHArray" /\ r.status = "ok")

(* C18: every FreeNHArray call releases the block nhp->dbuffer points to,  *)
(* the first call once and a second call once more, since the pointer      *)
(* stays non-null; every UpdateNHArray call that passes its tests and      *)
(* every GetXRange call after a FreeNHArray reads the released block, and  *)
(* no call returns an error for the released handle.                       *)
C18_FreeReleasesEveryTime ==
  [][/\ ret'.op = "FreeNHArray" => heap'.frees = heap.frees + 1 /\ heap'.ptr
     /\ ret'.op # "FreeNHArray" => heap'.frees = heap.frees
     /\ (heap.frees > 0 /\ Accesses(ret')) => heap'.uaf
     /\ (heap.frees > 0 /\ ret'.op = "GetXRange") => ret'.status = "ok"
     /\ (heap.frees > 0 /\ ret'.op = "UpdateNHArray" /\ ret'.status # "ok")
          => (normalized \/ BadShape(ret'.arg))]_vars

\* the block released twice, and read after its release
C18_Witness ==
  /\ heap.frees = 2
  /\ heap.uaf
  /\ okUpdates > 0

-----------------------------------------------------------------------------
\* row i has been normalized
RowNormalized(i) == i < Len(calls.Nx)

\* a normalized row that held samples no longer sums to 1
SumBroken ==
  \E i \in 0 .. elems - 1 :
    RowNormalized(i) /\ calls.Nx[i + 1] > 0 /\ RowSum(dbuffer[i]) # Dbl(1)

\* the rows were normalized with different numbers of samples
CountsDiffer ==
  \E i, j \in 0 .. elems - 1 :
    RowNormalized(i) /\ RowNormalized(j) /\ calls.Nx[i + 1] # calls.Nx[j + 1]

(* C17: as long as no UpdateNHArray call and GetXRange call have been in    *)
(* progress together, every normalized row that held samples sums to 1 and  *)
(* all rows were normalized with the same number of samples; without that   *)
(* serialization a state where one of the two fails is reachable.           *)
C17_SerializedCallsKeepRows ==
  ~calls.raced => (~SumBroken /\ ~CountsDiffer)

\* reached by an UpdateNHArray call that passed line 251 before GetXRange
\* normalized the rows: a normalized row incremented, rows of different totals
C17_Witness ==
  /\ calls.raced
  /\ SumBroken
  /\ CountsDiffer
  /\ calls.u.pc = "idle"
  /\ calls.g.pc = "idle"

-----------------------------------------------------------------------------
\* the scan of row i recorded bound k (1 the lower, 2 the upper)
Recorded(i, k) == IF k = 1 THEN GotLow(i) ELSE Broke(i)

\* the rows before i whose scan recorded bound k
Earlier(i, k) == {j \in 0 .. i - 1 : Recorded(j, k)}

\* a bound that the scan of a row did not record is reported as the bound
\* recorded for the nearest earlier row, or as what the local held at first
CarriedOver ==
  \A i \in 0 .. elems - 1 : \A k \in {1, 2} :
    ~Recorded(i, k)
      => ret.value[i][k] =
           IF Earlier(i, k) = {} THEN obs.junk[k]
           ELSE ret.value[CHOOSE j \in Earlier(i, k) : \A m \in Earlier(i, k) : m <= j][k]

\* the step is the scan of a row by GetXRange
ScanStep == calls.g.pc = "scan" /\ calls'.g # calls.g

\* what that step stores in the result for its row
Stored == IF calls'.g.pc = "scan" THEN calls'.g.rarray[calls.g.ielem]
          ELSE ret'.value[calls.g.ielem]

(* C14: a scan over a row whose cumulative mass never exceeds 1 - prob/2     *)
(* (never exceeds prob/2) stores as upper (lower) bound of that row what the *)
(* local xu (xl) of GetXRange held before the scan; so the value returned    *)
(* for it is the bound recorded for the nearest earlier row of the same call *)
(* that recorded one, or the indeterminate first value of the local.        *)
C14_UnrecordedBoundCarriedOver ==
  [][/\ ScanStep
          => LET g == calls.g
                 pl == DDiv(g.prob, Dbl(2))
                 pu == DSub(Dbl(1), pl)
             IN  /\ FirstAbove(dbuffer[g.ielem], pu) = -1 => Stored[2] = g.rxu
                 /\ FirstAbove(dbuffer[g.ielem], pl) = -1 => Stored[1] = g.rxl
     /\ ret'.op = "GetXRange" => CarriedOver']_vars

\* row 1 reported with the upper bound recorded for row 0, which is not what
\* the local held at first
C14_Witness ==
  /\ ret.op = "GetXRange"
  /\ Broke(0)
  /\ ~Broke(1)
  /\ ret.value[1][2] = ret.value[0][2]
  /\ ret.value[1][2] # obs.junk[2]

-----------------------------------------------------------------------------
\* the step is the normalization of a row by GetXRange
NormalizeStep == calls.g.pc = "norm" /\ calls'.g # calls.g

AllNaN(row) == \A b \in 0 .. nbins - 1 : IsNaN(row[b])

NoSamples(row) == \A b \in 0 .. nbins - 1 : row[b] = Dbl(0)

(* C15: the first GetXRange call turns a row without samples into NaN in   *)
(* every bin and a row with samples into a row of sum 1, whatever the      *)
(* other rows hold; it sets normalized and returns, without error, a       *)
(* result with a pair for every variable.                                  *)
C15_EmptyRowBecomesNaN ==
  [][/\ NormalizeStep
          => LET i == calls.g.ielem
             IN  /\ NoSamples(dbuffer[i]) => AllNaN(dbuffer'[i])
                 /\ ~NoSamples(dbuffer[i]) => RowSum(dbuffer'[i]) = Dbl(1)
                 /\ \A j \in 0 .. elems - 1 : j # i => dbuffer'[j] = dbuffer[j]
                 /\ normalized'
     /\ ret'.op = "GetXRange"
          => /\ ret'.status = "ok"
             /\ normalized'
             /\ DOMAIN ret'.value = 0 .. elems - 1]_vars

\* a first GetXRange call has returned; it found row 1 without samples and
\* row 0 with some
C15_Witness ==
  /\ ret.op = "GetXRange"
  /\ ret.status = "ok"
  /\ obs.first
  /\ calls.Nx = <<1, 0>>
  /\ AllNaN(dbuffer[1])
  /\ RowSum(dbuffer[0]) = Dbl(1)

====
